---- MODULE Spec2Model ----
(***************************************************************************)
(* Model of main.py: the crawl / resolve / download / extract pipeline of  *)
(* the Sailfish translation catalogue, the harvest snapshot and the merge  *)
(* with the published corpus.                                              *)
(*                                                                         *)
(* Texts, hrefs, URLs and paths are sequences of one-character strings, so *)
(* that strip(), replace(), split('/') and the f-string concatenations are *)
(* computed as the code computes them.  The catalogue server, the remote   *)
(* corpus and the language classifier are the program's environment: the   *)
(* server is a function from hrefs to responses drawn in Init from a       *)
(* bounded set of catalogues, the classifier a fixed total function.       *)
(***************************************************************************)
EXTENDS Naturals, Sequences, FiniteSets, TLC

VARIABLES
    pc,                 \* position of the process in main()
    i,                  \* position of the running stage's for loop (1-based)
    rpu,                \* _get_dataframe: rpu
    fpu,                \* _get_dataframe: fpu
    download_urls,      \* _get_dataframe: download_urls
    downloaded_files,   \* _get_dataframe: downloaded_files
    data,               \* _parse: data
    df,                 \* main: df
    merged,             \* main: merged
    fs,                 \* the working directory: snapshot, corpus file, download folder
    fs0,                \* the working directory as it was when the current run started
    effects,            \* the requests and file writes of the current run, in order
    run,                \* number of the current run of the program
    web,                \* the catalogue server: href -> response
    published           \* the corpus file of the remote dataset repository

vars == <<pc, i, rpu, fpu, download_urls, downloaded_files, data, df, merged,
          fs, fs0, effects, run, web, published>>

----------------------------------------------------------------------------
(* Bounds of the model *)

MaxRows == 2
MaxAnchors == 2
MaxPublished == 2
MaxRuns == 2

----------------------------------------------------------------------------
(* Program constants *)

HTTP_OK == 200

DOWNLOAD_FOLDER == <<"r","e","s","o","u","r","c","e","s">>

BASE_URL == <<"h","t","t","p","s",":","/","/","t","r","a","n","s","l","a","t","e",".","s","a","i","l","f","i","s","h","o","s",".","o","r","g">>

RootHref == <<"/","t","t">>

Namespace == <<"s","a","i","l","f","i","s","h">>

Slash == <<"/">>

TITLE_OFFLINE == "Download XLIFF file for offline translation"

TITLE_FORMAT == "Download file in XLIFF format"

TATAR_LABEL == "__label__tat_Cyrl"

Whitespace == {" ", "\n", "\t"}

----------------------------------------------------------------------------
(* String functions of the Python runtime *)

RECURSIVE LStrip(_)
LStrip(s) == IF s # <<>> /\ Head(s) \in Whitespace THEN LStrip(Tail(s)) ELSE s

RECURSIVE RStrip(_)
RStrip(s) == IF s # <<>> /\ s[Len(s)] \in Whitespace THEN RStrip(SubSeq(s, 1, Len(s) - 1)) ELSE s

\* str.strip()
Strip(s) == RStrip(LStrip(s))

\* text.replace("\n", " ")
ReplaceNewlines(s) == [k \in 1..Len(s) |-> IF s[k] = "\n" THEN " " ELSE s[k]]

\* url.split('/')[-1]: what follows the last '/', the whole string when there is none
RECURSIVE LastSegment(_)
LastSegment(s) == IF s = <<>> THEN <<>> ELSE IF s[Len(s)] = "/" THEN <<>> ELSE LastSegment(SubSeq(s, 1, Len(s) - 1)) \o <<s[Len(s)]>>

----------------------------------------------------------------------------
(* The language classifier (fastText): a fixed function of the text.  The  *)
(* letters t and a stand for the Tatar Cyrillic alphabet.  Like fastText,  *)
(* it does not classify a text that holds a newline.                       *)

TatarLetters == {"t", "a"}

Predict(text) == IF \E k \in 1..Len(text) : text[k] = "\n" THEN "ValueError" ELSE IF (\E k \in 1..Len(text) : text[k] \in TatarLetters) /\ (\A k \in 1..Len(text) : text[k] \in TatarLetters \cup {" "}) THEN TATAR_LABEL ELSE "__label__eng_Latn"

_check_is_tatar(text) == Predict(ReplaceNewlines(text)) = TATAR_LABEL

----------------------------------------------------------------------------
(* Pages of the catalogue.  A response carries its status and what the     *)
(* three parsers read from its body: the td.stats-name rows, the anchors   *)
(* and the trans-unit elements.                                            *)

\* a td.stats-name cell: its text, and the href of its first <a href=...>
Row(text, hasLink, href) == [text |-> text, hasLink |-> hasLink, href |-> href]

\* an <a> of a file page: its title, its href, whether div#overview-actions.bd holds it
Anchor(title, href, inPanel) == [title |-> title, href |-> href, inPanel |-> inPanel]

\* a <trans-unit>: its approved attribute and its <source> and <target> children
Unit(approved, hasSource, source, hasTarget, target) == [approved |-> approved, hasSource |-> hasSource, source |-> source, hasTarget |-> hasTarget, target |-> target]

Response(status, rows, anchors, units) == [status |-> status, rows |-> rows, anchors |-> anchors, units |-> units]

NotFound == Response(404, <<>>, <<>>, <<>>)

ListPage(rows) == Response(HTTP_OK, rows, <<>>, <<>>)

FilePage(anchors) == Response(HTTP_OK, <<>>, anchors, <<>>)

XliffFile(units) == Response(HTTP_OK, <<>>, <<>>, units)

RowA == Row(<<" ","a","\n">>, TRUE, <<"/","a">>)

RowB == Row(<<"b">>, TRUE, <<"/","b">>)

RowF == Row(<<"f",".","t","s">>, TRUE, <<"/","a","/","f">>)

RowG == Row(<<"\n","g"," ">>, TRUE, <<"/","a","/","g">>)

\* a cell whose text is blank
RowBlank == Row(<<" ","\n">>, TRUE, <<"/","c">>)

\* a cell without any <a href=...>
RowNoLink == Row(<<"c">>, FALSE, <<>>)

ResourceRows == {RowA, RowB, RowBlank, RowNoLink}

FileRows == {RowF, RowG, RowBlank, RowNoLink}

HrefDX == <<"/","d","/","x">>

HrefEX == <<"/","e","/","x">>

HrefDY == <<"/","d","/","y">>

DownloadHrefs == {HrefDX, HrefEX, HrefDY}

AnchorSet == {Anchor(TITLE_OFFLINE, HrefDX, TRUE), Anchor(TITLE_OFFLINE, HrefDY, TRUE), Anchor(TITLE_FORMAT, HrefEX, TRUE), Anchor(TITLE_FORMAT, HrefDY, TRUE), Anchor("Upload", HrefDX, TRUE), Anchor(TITLE_OFFLINE, HrefEX, FALSE)}

UnitGood == Unit("yes", TRUE, <<" ","H","i">>, TRUE, <<"t","a","\n">>)

UnitMultiline == Unit("yes", TRUE, <<"B","y","e">>, TRUE, <<"t","\n","a">>)

UnitUnapproved == Unit("no", TRUE, <<"N","o">>, TRUE, <<"t","a","t">>)

UnitBlankTarget == Unit("yes", TRUE, <<"H","i">>, TRUE, <<" ","\n">>)

UnitBlankSource == Unit("yes", TRUE, <<" ">>, TRUE, <<"t","a">>)

UnitEnglish == Unit("yes", TRUE, <<"H","i">>, TRUE, <<"h","i">>)

UnitNoTarget == Unit("yes", TRUE, <<"H","i">>, FALSE, <<>>)

UnitNoSource == Unit("yes", FALSE, <<>>, TRUE, <<"t","a">>)

DocNone == <<UnitUnapproved>>

DocGood == <<UnitGood, UnitUnapproved, UnitBlankTarget, UnitEnglish>>

DocGood2 == <<UnitMultiline, UnitBlankSource, UnitGood>>

DocNoTarget == <<UnitGood, UnitNoTarget, UnitMultiline>>

DocNoSource == <<UnitNoSource, UnitGood>>

Docs == {DocNone, DocGood, DocGood2, DocNoTarget, DocNoSource}

SeqsUpTo(S, n) == UNION {[1..k -> S] : k \in 0..n}

ListResponses(rows) == {NotFound} \cup {ListPage(r) : r \in SeqsUpTo(rows, MaxRows)}

FilePageResponses == {NotFound} \cup {FilePage(a) : a \in SeqsUpTo(AnchorSet, MaxAnchors)}

SimpleFilePages == {NotFound, FilePage(<<>>), FilePage(<<Anchor(TITLE_OFFLINE, HrefDY, TRUE)>>)}

SimpleListPages == {NotFound, ListPage(<<RowG>>), ListPage(<<RowBlank, RowF>>)}

DownloadResponses == {NotFound} \cup {XliffFile(d) : d \in Docs}

----------------------------------------------------------------------------
(* Tables: a parquet file holds columns and rows; a DataFrame also gives   *)
(* every row an index label.                                               *)

Columns == <<"en", "tt", "src">>

Record(en, tt, src) == [en |-> en, tt |-> tt, src |-> src]

NoFile == [exists |-> FALSE, columns |-> <<>>, rows |-> <<>>]

ParquetFile(columns, rows) == [exists |-> TRUE, columns |-> columns, rows |-> rows]

TextHi == <<"H","i">>

TextTa == <<"t","a">>

TextAt == <<"a","t">>

PubSame == Record(TextHi, TextTa, <<"o","l","d","/","1">>)

PubOtherTarget == Record(TextHi, TextAt, <<"o","l","d","/","2">>)

PubSameAgain == Record(TextHi, TextTa, <<"o","l","d","/","3">>)

PublishedRecords == {PubSame, PubOtherTarget, PubSameAgain}

PublishedCorpora == {ParquetFile(Columns, r) : r \in SeqsUpTo(PublishedRecords, MaxPublished)}

DefaultPublished == ParquetFile(Columns, <<PubSame, PubOtherTarget>>)

SnapRecord == Record(TextHi, TextTa, <<"s","a","i","l","f","i","s","h","/","a","/","x">>)

InitialSnapshots == {NoFile, ParquetFile(<<>>, <<>>), ParquetFile(Columns, <<SnapRecord>>), ParquetFile(Columns, <<SnapRecord, PubOtherTarget>>)}

----------------------------------------------------------------------------
(* The catalogues the model runs against.  Each family varies the pages of *)
(* one level of the catalogue over every page of that level and keeps the  *)
(* other levels fixed.                                                     *)

HrefA == <<"/","a">>

HrefB == <<"/","b">>

HrefAF == <<"/","a","/","f">>

HrefAG == <<"/","a","/","g">>

DefaultWeb == (RootHref :> ListPage(<<RowA>>)) @@ (HrefA :> ListPage(<<RowF>>)) @@ (HrefB :> ListPage(<<RowG>>)) @@ (HrefAF :> FilePage(<<Anchor(TITLE_FORMAT, HrefDX, TRUE)>>)) @@ (HrefAG :> FilePage(<<Anchor(TITLE_OFFLINE, HrefDY, TRUE)>>)) @@ (HrefDX :> XliffFile(DocGood)) @@ (HrefEX :> XliffFile(DocGood2)) @@ (HrefDY :> XliffFile(DocGood2))

World(w, p, s) == [web |-> w, published |-> p, snapshot |-> s]

RootWorlds == {World([DefaultWeb EXCEPT ![RootHref] = r], DefaultPublished, NoFile) : r \in ListResponses(ResourceRows)}

ListingWorlds == {World([DefaultWeb EXCEPT ![RootHref] = ListPage(<<RowA, RowB>>), ![HrefA] = x[1], ![HrefB] = x[2]], DefaultPublished, NoFile) : x \in (ListResponses(FileRows) \X SimpleListPages) \cup (SimpleListPages \X ListResponses(FileRows))}

ResolverWorlds == {World([DefaultWeb EXCEPT ![HrefA] = ListPage(<<RowF, RowG>>), ![HrefAF] = x[1], ![HrefAG] = x[2]], DefaultPublished, NoFile) : x \in (FilePageResponses \X SimpleFilePages) \cup (SimpleFilePages \X FilePageResponses)}

DownloadWorlds == {World([DefaultWeb EXCEPT ![HrefAF] = FilePage(<<Anchor(TITLE_OFFLINE, x[1][1], TRUE), Anchor(TITLE_OFFLINE, x[1][2], TRUE)>>), ![HrefDX] = x[2], ![HrefEX] = x[3], ![HrefDY] = x[4]], DefaultPublished, NoFile) : x \in {y \in DownloadHrefs \X DownloadHrefs : y[1] # y[2]} \X DownloadResponses \X DownloadResponses \X DownloadResponses}

MergeWorlds == {World(DefaultWeb, x[1], x[2]) : x \in PublishedCorpora \X InitialSnapshots}

Worlds == RootWorlds \cup ListingWorlds \cup ResolverWorlds \cup DownloadWorlds \cup MergeWorlds

----------------------------------------------------------------------------
(* pandas *)

EmptyFrame == [columns |-> <<>>, rows |-> <<>>]

Indexed(rows) == [k \in 1..Len(rows) |-> [idx |-> k - 1, en |-> rows[k].en, tt |-> rows[k].tt, src |-> rows[k].src]]

\* pd.DataFrame(data): a list of dicts; no dict, no column
DataFrame(records) == [columns |-> IF records = <<>> THEN <<>> ELSE Columns, rows |-> Indexed(records)]

\* frame.to_parquet(path, index=False)
to_parquet(frame) == ParquetFile(frame.columns, [k \in 1..Len(frame.rows) |-> Record(frame.rows[k].en, frame.rows[k].tt, frame.rows[k].src)])

\* pd.read_parquet(path)
read_parquet(file) == [columns |-> file.columns, rows |-> Indexed(file.rows)]

\* pd.concat([a, b]): the columns of a, then those only b has; the rows of a, then of b
concat(a, b) == [columns |-> a.columns \o SelectSeq(b.columns, LAMBDA c : \A k \in 1..Len(a.columns) : a.columns[k] # c), rows |-> a.rows \o b.rows]

RECURSIVE KeepFirst(_, _)
KeepFirst(rows, seen) == IF rows = <<>> THEN <<>> ELSE IF <<Head(rows).en, Head(rows).tt>> \in seen THEN KeepFirst(Tail(rows), seen) ELSE <<Head(rows)>> \o KeepFirst(Tail(rows), seen \cup {<<Head(rows).en, Head(rows).tt>>})

\* frame.drop_duplicates(subset=["en", "tt"]): keep='first'
drop_duplicates(frame) == [columns |-> frame.columns, rows |-> KeepFirst(frame.rows, {})]

----------------------------------------------------------------------------
(* The environment as the program reaches it *)

\* requests.get(url)
requests_get(url) == LET href == SubSeq(url, Len(BASE_URL) + 1, Len(url)) IN IF href \in DOMAIN web THEN web[href] ELSE NotFound

Effect(op, target) == [op |-> op, target |-> target]

\* open(path, 'wb') ... file.write(chunk): the file at path holds the whole body
WriteFile(folder, path, content) == {f \in folder : f.path # path} \cup {[path |-> path, content |-> content]}

\* open(path, 'r')
ReadFile(folder, path) == (CHOOSE f \in folder : f.path = path).content

----------------------------------------------------------------------------
(* The stages *)

ResourceRef(name, url) == [res_name |-> name, res_url |-> url]

FileRef(res_name, file_name, url) == [res_name |-> res_name, file_name |-> file_name, url |-> url]

DownloadedFile(res_name, file_name, path) == [res_name |-> res_name, file_name |-> file_name, path |-> path]

\* lines 22-25 and 41-44: a cell counts when it has a link and a name
ValidRow(row) == row.hasLink /\ Strip(row.text) # <<>>

\* _get_resource_page_urls, lines 19-29
ResourcesOf(response) == IF response.status = HTTP_OK THEN LET rows == SelectSeq(response.rows, ValidRow) IN [k \in 1..Len(rows) |-> ResourceRef(Strip(rows[k].text), rows[k].href)] ELSE <<>>

\* FilesOf without the test of the name at line 43
FilesOfUnnamed(res_name, response) == IF response.status = HTTP_OK THEN LET rows == SelectSeq(response.rows, LAMBDA r : r.hasLink) IN [k \in 1..Len(rows) |-> FileRef(res_name, Strip(rows[k].text), rows[k].href)] ELSE <<>>

\* _get_file_page_urls, lines 38-48: the files one resource page adds
FilesOf(res_name, response) == IF response.status = HTTP_OK THEN LET rows == SelectSeq(response.rows, ValidRow) IN [k \in 1..Len(rows) |-> FileRef(res_name, Strip(rows[k].text), rows[k].href)] ELSE <<>>

\* parser.select("div[id=overview-actions].bd a[title='...']")
SelectAnchors(anchors, title) == SelectSeq(anchors, LAMBDA a : a.inPanel /\ a.title = title)

\* ExportAnchors with both selections taken, not the first that matches
ExportAnchorsOfBoth(anchors) == SelectAnchors(anchors, TITLE_OFFLINE) \o SelectAnchors(anchors, TITLE_FORMAT)

\* lines 59-63: the first selection unless it is empty
ExportAnchors(anchors) == IF SelectAnchors(anchors, TITLE_OFFLINE) # <<>> THEN SelectAnchors(anchors, TITLE_OFFLINE) ELSE SelectAnchors(anchors, TITLE_FORMAT)

\* lines 64-69: the links one file page adds
LinksOf(file, response) == LET urls == ExportAnchors(response.anchors) IN [k \in 1..Len(urls) |-> FileRef(file.res_name, file.file_name, urls[k].href)]

\* ResolveIsFatal as the other stages treat a failed page: logged and skipped
ResolveIsTolerant(response) == FALSE

\* lines 57 and 70-72: a file page that is not a 200 ends the process
ResolveIsFatal(response) == response.status # HTTP_OK

\* line 85: the name the loop variable file_name holds after a download
DownloadedName(file_name, download_url) == LastSegment(download_url)

\* line 86
PathOf(file_name) == DOWNLOAD_FOLDER \o Slash \o file_name

\* line 102
Origin(res_name, file_name) == Namespace \o Slash \o res_name \o Slash \o file_name

\* line 106: trans-unit[approved='yes']
Approved(units) == SelectSeq(units, LAMBDA u : u.approved = "yes")

\* lines 111-112: find() gives None for a missing child, and None has no get_text
Raises(units) == \E k \in 1..Len(units) : ~units[k].hasSource \/ ~units[k].hasTarget

\* Accepted without the call of the verifier
AcceptedUnverified(en, tt) == en # <<>> /\ tt # <<>>

\* line 113
Accepted(en, tt) == en # <<>> /\ tt # <<>> /\ _check_is_tatar(tt)

\* lines 110-118: the records one file adds
RecordsOf(units, src) == LET kept == SelectSeq(units, LAMBDA u : Accepted(Strip(u.source), Strip(u.target))) IN [k \in 1..Len(kept) |-> Record(Strip(kept[k].source), Strip(kept[k].target), src)]

\* SnapshotExists without the test of line 132
SnapshotIgnored == FALSE

\* line 132
SnapshotExists == fs.snapshot.exists

\* _merge_with_existing_data with the published corpus placed first
_merge_published_first(frame) == drop_duplicates(concat(read_parquet(published), frame))

\* lines 157-162
_merge_with_existing_data(frame) == drop_duplicates(concat(frame, read_parquet(published)))

----------------------------------------------------------------------------
(* The process *)

Terminated == {"done", "exited", "crashed"}

Init ==
    /\ \E w \in Worlds :
        /\ web = w.web
        /\ published = w.published
        /\ fs = [snapshot |-> w.snapshot, corpus |-> NoFile, folderExists |-> FALSE, folder |-> {}]
        /\ fs0 = [snapshot |-> w.snapshot, corpus |-> NoFile, folderExists |-> FALSE, folder |-> {}]
    /\ pc = "start"
    /\ i = 1
    /\ rpu = <<>>
    /\ fpu = <<>>
    /\ download_urls = <<>>
    /\ downloaded_files = <<>>
    /\ data = <<>>
    /\ df = EmptyFrame
    /\ merged = EmptyFrame
    /\ effects = <<>>
    /\ run = 1

\* the process is gone, and its variables with it
Locals(where) ==
    /\ pc' = where
    /\ i' = 1
    /\ rpu' = <<>>
    /\ fpu' = <<>>
    /\ download_urls' = <<>>
    /\ downloaded_files' = <<>>
    /\ data' = <<>>
    /\ df' = EmptyFrame
    /\ merged' = EmptyFrame

\* main, line 166, and _get_dataframe, lines 132-133
Start ==
    /\ pc = "start"
    /\ IF SnapshotExists
       THEN /\ df' = read_parquet(fs.snapshot)
            /\ effects' = Append(effects, Effect("READ_SNAPSHOT", <<>>))
            /\ pc' = "merge"
       ELSE /\ df' = df
            /\ effects' = effects
            /\ pc' = "resources"
    /\ UNCHANGED <<i, rpu, fpu, download_urls, downloaded_files, data, merged, fs, fs0, run, web, published>>

\* _get_resource_page_urls, lines 16-30, called at line 135
GetResourcePageUrls ==
    /\ pc = "resources"
    /\ LET base_page == BASE_URL \o RootHref
       IN /\ rpu' = ResourcesOf(requests_get(base_page))
          /\ effects' = Append(effects, Effect("GET", base_page))
    /\ pc' = "files"
    /\ i' = 1
    /\ UNCHANGED <<fpu, download_urls, downloaded_files, data, df, merged, fs, fs0, run, web, published>>

\* _get_file_page_urls, lines 35-48: one turn of the loop
GetFilePageUrlsStep ==
    /\ pc = "files"
    /\ i <= Len(rpu)
    /\ LET res_url == BASE_URL \o rpu[i].res_url
       IN /\ fpu' = fpu \o FilesOf(rpu[i].res_name, requests_get(res_url))
          /\ effects' = Append(effects, Effect("GET", res_url))
    /\ i' = i + 1
    /\ UNCHANGED <<pc, rpu, download_urls, downloaded_files, data, df, merged, fs, fs0, run, web, published>>

\* line 49, then line 141
GetFilePageUrlsReturn ==
    /\ pc = "files"
    /\ i > Len(rpu)
    /\ pc' = "resolve"
    /\ i' = 1
    /\ UNCHANGED <<rpu, fpu, download_urls, downloaded_files, data, df, merged, fs, fs0, effects, run, web, published>>

\* _get_download_urls, lines 54-72: one turn of the loop
GetDownloadUrlsStep ==
    /\ pc = "resolve"
    /\ i <= Len(fpu)
    /\ LET file_url == BASE_URL \o fpu[i].url
           response == requests_get(file_url)
       IN /\ effects' = Append(effects, Effect("GET", file_url))
          /\ IF ResolveIsFatal(response)
             THEN Locals("exited")
             ELSE /\ download_urls' = download_urls \o LinksOf(fpu[i], response)
                  /\ i' = i + 1
                  /\ UNCHANGED <<pc, rpu, fpu, downloaded_files, data, df, merged>>
    /\ UNCHANGED <<fs, fs0, run, web, published>>

\* line 73, then lines 144 and 77-80
GetDownloadUrlsReturn ==
    /\ pc = "resolve"
    /\ i > Len(fpu)
    /\ pc' = "download"
    /\ i' = 1
    /\ fs' = [fs EXCEPT !.folderExists = TRUE]
    /\ effects' = IF fs.folderExists THEN effects ELSE Append(effects, Effect("MKDIR", DOWNLOAD_FOLDER))
    /\ UNCHANGED <<rpu, fpu, download_urls, downloaded_files, data, df, merged, fs0, run, web, published>>

\* _download, lines 81-92: one turn of the loop
DownloadStep ==
    /\ pc = "download"
    /\ i <= Len(download_urls)
    /\ LET download_url == BASE_URL \o download_urls[i].url
           response == requests_get(download_url)
           file_name == DownloadedName(download_urls[i].file_name, download_url)
           path_to_file == PathOf(file_name)
       IN IF response.status = HTTP_OK
          THEN /\ fs' = [fs EXCEPT !.folder = WriteFile(fs.folder, path_to_file, response.units)]
               /\ downloaded_files' = Append(downloaded_files, DownloadedFile(download_urls[i].res_name, file_name, path_to_file))
               /\ effects' = effects \o <<Effect("GET", download_url), Effect("WRITE", path_to_file)>>
          ELSE /\ fs' = fs
               /\ downloaded_files' = downloaded_files
               /\ effects' = Append(effects, Effect("GET", download_url))
    /\ i' = i + 1
    /\ UNCHANGED <<pc, rpu, fpu, download_urls, data, df, merged, fs0, run, web, published>>

\* line 93, then line 147
DownloadReturn ==
    /\ pc = "download"
    /\ i > Len(download_urls)
    /\ pc' = "parse"
    /\ i' = 1
    /\ UNCHANGED <<rpu, fpu, download_urls, downloaded_files, data, df, merged, fs, fs0, effects, run, web, published>>

\* _parse, lines 101-118: one turn of the outer loop
ParseStep ==
    /\ pc = "parse"
    /\ i <= Len(downloaded_files)
    /\ LET file == downloaded_files[i]
           src == Origin(file.res_name, file.file_name)
           elements == Approved(ReadFile(fs.folder, file.path))
       IN IF Raises(elements)
          THEN Locals("crashed")
          ELSE /\ data' = data \o RecordsOf(elements, src)
               /\ i' = i + 1
               /\ UNCHANGED <<pc, rpu, fpu, download_urls, downloaded_files, df, merged>>
    /\ UNCHANGED <<fs, fs0, effects, run, web, published>>

\* line 119, then lines 150-153
SaveSnapshot ==
    /\ pc = "parse"
    /\ i > Len(downloaded_files)
    /\ df' = DataFrame(data)
    /\ fs' = [fs EXCEPT !.snapshot = to_parquet(DataFrame(data))]
    /\ effects' = Append(effects, Effect("WRITE_SNAPSHOT", <<>>))
    /\ pc' = "merge"
    /\ UNCHANGED <<i, rpu, fpu, download_urls, downloaded_files, data, merged, fs0, run, web, published>>

\* main, line 167
Merge ==
    /\ pc = "merge"
    /\ merged' = _merge_with_existing_data(df)
    /\ effects' = Append(effects, Effect("FETCH_PUBLISHED", <<>>))
    /\ pc' = "write"
    /\ UNCHANGED <<i, rpu, fpu, download_urls, downloaded_files, data, df, fs, fs0, run, web, published>>

\* main, line 168
WriteCorpus ==
    /\ pc = "write"
    /\ fs' = [fs EXCEPT !.corpus = to_parquet(merged)]
    /\ effects' = Append(effects, Effect("WRITE_CORPUS", <<>>))
    /\ pc' = "done"
    /\ UNCHANGED <<i, rpu, fpu, download_urls, downloaded_files, data, df, merged, fs0, run, web, published>>

\* the program is started again in the directory the last run left (line 172)
Rerun ==
    /\ pc \in Terminated
    /\ run < MaxRuns
    /\ run' = run + 1
    /\ Locals("start")
    /\ fs0' = fs
    /\ effects' = <<>>
    /\ UNCHANGED <<fs, web, published>>

Next ==
    \/ Start
    \/ GetResourcePageUrls
    \/ GetFilePageUrlsStep
    \/ GetFilePageUrlsReturn
    \/ GetDownloadUrlsStep
    \/ GetDownloadUrlsReturn
    \/ DownloadStep
    \/ DownloadReturn
    \/ ParseStep
    \/ SaveSnapshot
    \/ Merge
    \/ WriteCorpus
    \/ Rerun

Spec == Init /\ [][Next]_vars

----------------------------------------------------------------------------
(* Vocabulary of the properties *)

\* the current run found no snapshot and walks the catalogue
Crawling == ~fs0.snapshot.exists

AfterFileLister == {"resolve", "download", "parse", "merge", "write", "done"}

AfterResolver == {"download", "parse", "merge", "write", "done"}

AfterExtractor == {"merge", "write", "done"}

\* the URLs requested so far in this run, in order
Requested == LET gets == SelectSeq(effects, LAMBDA e : e.op = "GET") IN [k \in 1..Len(gets) |-> gets[k].target]

Count(op) == Cardinality({k \in 1..Len(effects) : effects[k].op = op})

\* the page the catalogue serves at an href
PageAt(href) == web[href]

RECURSIVE Flatten(_)
Flatten(seqs) == IF seqs = <<>> THEN <<>> ELSE Head(seqs) \o Flatten(Tail(seqs))

\* the elements of s at the positions in P, in order
RECURSIVE Pick(_, _, _)
Pick(s, P, k) == IF k > Len(s) THEN <<>> ELSE (IF k \in P THEN <<s[k]>> ELSE <<>>) \o Pick(s, P, k + 1)

NonBlank(text) == \E k \in 1..Len(text) : text[k] \notin Whitespace

\* the text between its first and its last character that is not whitespace
Trimmed(text) ==
    LET solid == {k \in 1..Len(text) : text[k] \notin Whitespace}
    IN IF solid = {} THEN <<>>
       ELSE SubSeq(text, CHOOSE k \in solid : \A j \in solid : k <= j, CHOOSE k \in solid : \A j \in solid : k >= j)

ResourceUrls(resources) == [k \in 1..Len(resources) |-> BASE_URL \o resources[k].res_url]

----------------------------------------------------------------------------
(* C7: FileLister *)

\* the rows of one resource's page that have a link and a name, when the page is a 200
ExpectedFileRows(r) ==
    LET page == PageAt(r.res_url)
        valid == {k \in 1..Len(page.rows) : page.rows[k].hasLink /\ NonBlank(page.rows[k].text)}
        picked == Pick(page.rows, valid, 1)
    IN IF page.status = HTTP_OK
       THEN [k \in 1..Len(picked) |-> [res_name |-> r.res_name, file_name |-> Trimmed(picked[k].text), url |-> picked[k].href]]
       ELSE <<>>

ExpectedFiles(resources) == Flatten([k \in 1..Len(resources) |-> ExpectedFileRows(resources[k])])

\* C7: FileLister requests the page of every resource once, in list order, and
\* returns the concatenation, in resource order, of the valid file rows of the
\* resources whose page returned 200; a resource whose page did not return 200
\* adds nothing and the resources after it are still processed.
C7_FileListerIsolatesFailures ==
    Crawling =>
        /\ pc = "files" =>
            /\ i <= Len(rpu) + 1
            /\ fpu = ExpectedFiles(SubSeq(rpu, 1, i - 1))
            /\ Requested = <<BASE_URL \o RootHref>> \o ResourceUrls(SubSeq(rpu, 1, i - 1))
        /\ pc \in AfterFileLister =>
            /\ fpu = ExpectedFiles(rpu)
            /\ SubSeq(Requested, 1, Len(rpu) + 1) = <<BASE_URL \o RootHref>> \o ResourceUrls(rpu)

\* a resource page that failed, followed by one that listed files
C7_Witness ==
    /\ pc = "resolve"
    /\ Len(rpu) = 2
    /\ PageAt(rpu[1].res_url).status # HTTP_OK
    /\ PageAt(rpu[2].res_url).status = HTTP_OK
    /\ Len(PageAt(rpu[2].res_url).rows) = 2
    /\ Len(fpu) = 1

----------------------------------------------------------------------------
(* C6: DownloadLinkResolver *)

\* the positions of the panel's anchors that carry a title
Titled(anchors, title) == {k \in 1..Len(anchors) : anchors[k].inPanel /\ anchors[k].title = title}

\* one link per anchor of the variant that wins on the page of file f
ExpectedLinksOf(f) ==
    LET anchors == PageAt(f.url).anchors
        offline == Titled(anchors, TITLE_OFFLINE)
        format == Titled(anchors, TITLE_FORMAT)
        chosen == Pick(anchors, IF offline # {} THEN offline ELSE format, 1)
    IN [k \in 1..Len(chosen) |-> [res_name |-> f.res_name, file_name |-> f.file_name, url |-> chosen[k].href]]

ExpectedLinks(files) == Flatten([k \in 1..Len(files) |-> ExpectedLinksOf(files[k])])

----------------------------------------------------------------------------
(* C4: TranslationUnitExtractor *)

\* the trans-units of the downloaded files the extractor has read
UnitsRead == UNION {{ReadFile(fs.folder, downloaded_files[k].path)[j] : j \in 1..Len(ReadFile(fs.folder, downloaded_files[k].path))} : k \in 1..Len(downloaded_files)}

\* record r is what unit u yields, and u meets every condition of the extractor
Qualifies(u, r) ==
    /\ u.approved = "yes"
    /\ u.hasSource /\ u.hasTarget
    /\ r.en = Trimmed(u.source) /\ r.en # <<>>
    /\ r.tt = Trimmed(u.target) /\ r.tt # <<>>
    /\ Predict([k \in 1..Len(r.tt) |-> IF r.tt[k] = "\n" THEN " " ELSE r.tt[k]]) = TATAR_LABEL

\* C4: every record the extractor emits comes from a trans-unit marked
\* approved="yes", has a source and a target that are not empty once trimmed,
\* and a target the classifier, given it with newlines replaced, labels with
\* the expected tag.
C4_OnlyVerifiedApprovedUnits ==
    (Crawling /\ pc \in {"parse"} \cup AfterExtractor) =>
        \A k \in 1..Len(data) : \E u \in UnitsRead : Qualifies(u, data[k])

\* a file read with a unit kept, its target spanning two lines, and units left out
C4_Witness ==
    /\ pc = "parse"
    /\ i > Len(downloaded_files)
    /\ \E k \in 1..Len(data) : \E j \in 1..Len(data[k].tt) : data[k].tt[j] = "\n"
    /\ UnitEnglish \in UnitsRead
    /\ UnitUnapproved \in UnitsRead
    /\ UnitBlankSource \in UnitsRead

----------------------------------------------------------------------------
(* C3: CorpusMerger *)

\* the fresh records followed by the published ones
Concatenated == df.rows \o read_parquet(published).rows

Pair(r) == <<r.en, r.tt>>

\* the first position of the pair of row r in the concatenation
FirstOf(r) == CHOOSE k \in 1..Len(Concatenated) : Pair(Concatenated[k]) = Pair(r) /\ \A j \in 1..(k - 1) : Pair(Concatenated[j]) # Pair(r)

\* C3: the merger returns, for every (source, target) pair of the fresh table
\* or of the published corpus, exactly one record, the first with that pair in
\* 'fresh records, then published records': a fresh record wins over a
\* published one with the same pair, and records that differ in source or in
\* target never collapse.
C3_MergeKeepsFirstOfEachPair ==
    pc \in {"write", "done"} =>
        /\ \A k \in 1..Len(Concatenated) :
            Cardinality({m \in 1..Len(merged.rows) : Pair(merged.rows[m]) = Pair(Concatenated[k])}) = 1
        /\ \A m \in 1..Len(merged.rows) :
            /\ \E k \in 1..Len(Concatenated) : Pair(Concatenated[k]) = Pair(merged.rows[m])
            /\ merged.rows[m].src = Concatenated[FirstOf(merged.rows[m])].src

\* a fresh record and a published one with the same pair and another provenance,
\* beside a published record that differs in its target only
C3_Witness ==
    /\ pc = "write"
    /\ Crawling
    /\ \E k \in 1..Len(df.rows) : \E j \in 1..Len(published.rows) :
        /\ Pair(df.rows[k]) = Pair(published.rows[j])
        /\ df.rows[k].src # published.rows[j].src
    /\ \E k \in 1..Len(df.rows) : \E j \in 1..Len(published.rows) :
        /\ df.rows[k].en = published.rows[j].en
        /\ df.rows[k].tt # published.rows[j].tt
    /\ Len(merged.rows) < Len(Concatenated)

----------------------------------------------------------------------------
(* C5: HarvestCache *)

CrawlEffects == {"GET", "MKDIR", "WRITE", "WRITE_SNAPSHOT"}

\* C5: in a run that finds a snapshot no crawl stage runs: no request is
\* issued, nothing is written to the download folder, the snapshot is not
\* rewritten, and the table handed to the merger is the loaded snapshot.
C5_SnapshotBypassesCrawl ==
    fs0.snapshot.exists =>
        /\ pc \in {"start", "merge", "write", "done"}
        /\ \A k \in 1..Len(effects) : effects[k].op \notin CrawlEffects
        /\ fs.snapshot = fs0.snapshot
        /\ fs.folder = fs0.folder
        /\ fs.folderExists = fs0.folderExists
        /\ pc \in {"merge", "write", "done"} =>
            /\ df.columns = fs0.snapshot.columns
            /\ Len(df.rows) = Len(fs0.snapshot.rows)
            /\ \A k \in 1..Len(df.rows) :
                /\ df.rows[k].en = fs0.snapshot.rows[k].en
                /\ df.rows[k].tt = fs0.snapshot.rows[k].tt
                /\ df.rows[k].src = fs0.snapshot.rows[k].src

\* a run that started on a snapshot with records has written the corpus
C5_Witness ==
    /\ fs0.snapshot.exists
    /\ fs0.snapshot.rows # <<>>
    /\ pc = "done"
    /\ fs.corpus.exists

----------------------------------------------------------------------------
(* C1: the resolver's fatal exit *)

Writes == {"MKDIR", "WRITE", "WRITE_SNAPSHOT", "WRITE_CORPUS", "FETCH_PUBLISHED"}

\* what holds of a run the resolver has ended
ExitedClean ==
    pc = "exited" =>
        /\ Crawling
        /\ download_urls = <<>> /\ downloaded_files = <<>> /\ data = <<>>
        /\ \A k \in 1..Len(effects) : effects[k].op \notin Writes
        /\ PageAt(SubSeq(effects[Len(effects)].target, Len(BASE_URL) + 1, Len(effects[Len(effects)].target))).status # HTTP_OK
        /\ fs = fs0
        /\ ~fs.snapshot.exists
        /\ ~fs.corpus.exists

\* a file page that is not a 200 ends the run at once
ExitsAtOnce == (pc = "resolve" /\ i <= Len(fpu) /\ PageAt(fpu[i].url).status # HTTP_OK) => pc' = "exited"

\* an ended run does nothing more: only a new run follows it
StaysExited == pc = "exited" => (pc' = "start" /\ run' = run + 1 /\ fs' = fs)

\* C1: in a run that found no snapshot, a file page that is not a 200 ends the
\* run at once: no download, extraction or merge follows, neither the snapshot
\* nor the corpus file is written, and the links resolved so far are dropped.
C1_ResolveFailureEndsRun == []ExitedClean /\ [][ExitsAtOnce /\ StaysExited]_vars

\* the run ended at the second file page, after the first gave a link
C1_Witness ==
    /\ pc = "exited"
    /\ Len(Requested) = 4
    /\ PageAt(HrefAF).status = HTTP_OK
    /\ ExpectedLinksOf([res_name |-> <<"a">>, file_name |-> <<"f",".","t","s">>, url |-> HrefAF]) # <<>>
    /\ Requested[4] = BASE_URL \o HrefAG

----------------------------------------------------------------------------
(* C2: provenance *)

\* C2: every record of a crawl has origin <namespace>/<resourceName>/<fileName>,
\* the two names being those FileLister read from the catalogue rows of the file.
C2_OriginNamesTheFileRef ==
    (Crawling /\ pc \in {"parse"} \cup AfterExtractor) =>
        \A k \in 1..Len(data) : \E j \in 1..Len(fpu) :
            data[k].src = Namespace \o Slash \o fpu[j].res_name \o Slash \o fpu[j].file_name

----------------------------------------------------------------------------
(* C8: downloaded files *)

\* the links whose download returned 200, in order: one per downloaded file
Fetched == SelectSeq(download_urls, LAMBDA link : PageAt(link.url).status = HTTP_OK)

\* C8: the paths FileDownloader returns are pairwise distinct, and when the list
\* reaches the extractor the file at each path holds the body of the download
\* it is paired with.
C8_PathsDistinctAndFilesWhole ==
    (Crawling /\ pc = "parse" /\ i = 1) =>
        /\ Len(downloaded_files) = Len(Fetched)
        /\ \A j, k \in 1..Len(downloaded_files) : j # k => downloaded_files[j].path # downloaded_files[k].path
        /\ \A k \in 1..Len(downloaded_files) : ReadFile(fs.folder, downloaded_files[k].path) = PageAt(Fetched[k].url).units

----------------------------------------------------------------------------
(* C9: malformed trans-units *)

WellFormed(u) == u.hasSource /\ u.hasTarget

\* the records of the well-formed units of the file the extractor is at
RecordsOfWellFormed ==
    LET file == downloaded_files[i]
        units == ReadFile(fs.folder, file.path)
        kept == Pick(units, {k \in 1..Len(units) : WellFormed(units[k]) /\ \E r \in {Record(Trimmed(units[k].source), Trimmed(units[k].target), Origin(file.res_name, file.file_name))} : Qualifies(units[k], r)}, 1)
    IN [k \in 1..Len(kept) |-> Record(Trimmed(kept[k].source), Trimmed(kept[k].target), Origin(file.res_name, file.file_name))]

SkipsMalformedUnits ==
    (pc = "parse" /\ i <= Len(downloaded_files)) =>
        /\ pc' = "parse"
        /\ i' = i + 1
        /\ data' = data \o RecordsOfWellFormed

\* C9: an approved trans-unit without a source or a target child is skipped; the
\* other units of the file and the other files are still processed, and the run
\* goes on to write the snapshot and the corpus.
C9_MalformedUnitIsSkipped == [][SkipsMalformedUnits]_vars

----------------------------------------------------------------------------
(* C10: the snapshot of a crawl *)

\* C10: a run that found no snapshot and that the resolver did not end writes the
\* snapshot exactly once, between the extractor and the merger, with the
\* extractor's output; the runs after it find the snapshot and do not crawl.
C10_SnapshotWrittenOnce ==
    Crawling =>
        /\ pc \in {"start", "resources", "files", "resolve", "download", "parse"} => Count("WRITE_SNAPSHOT") = 0
        /\ pc \in AfterExtractor \cup {"crashed"} =>
            /\ Count("WRITE_SNAPSHOT") = 1
            /\ fs.snapshot.exists
        /\ pc \in AfterExtractor =>
            /\ fs.snapshot.columns = (IF data = <<>> THEN <<>> ELSE Columns)
            /\ fs.snapshot.rows = data
            /\ \A k \in 1..Len(effects) : effects[k].op = "FETCH_PUBLISHED" => \E j \in 1..(k - 1) : effects[j].op = "WRITE_SNAPSHOT"

====
